---------------------------- MODULE Spec2Model ----------------------------
(***************************************************************************)
(* State-machine model of self-registration-2/src/main.ts: the bootstrap   *)
(* file of an AngularJS single-page application.  The file is a            *)
(* straight-line script: it creates module 'app', chains one config call   *)
(* and five registration calls on it, and calls bootstrap.                 *)
(*                                                                         *)
(* The imported values (routes, the four components, the service) and the  *)
(* global document are opaque to main.ts; they are drawn from a small set  *)
(* of values in Init, so that a binding of a name to the wrong import is a *)
(* visible difference.                                                     *)
(***************************************************************************)
EXTENDS Naturals, Sequences, FiniteSets

VARIABLES
    pc,                           \* index of the next statement of main.ts
    modules,                      \* angular's module registry: name -> module
    bootstrapCalls,               \* the bootstrap calls made: <<[element, modules]>>
    calls,                        \* the framework calls made so far, in order
    routes,                       \* import, line 2
    ApplicationComponent,         \* import, line 3
    DashboardComponent,           \* import, line 4
    RegistrationComponent,        \* import, line 5
    UserService,                  \* import, line 6
    RegistrationSuccessComponent, \* import, line 7
    document                      \* the global page document

imports == <<routes, ApplicationComponent, DashboardComponent,
             RegistrationComponent, UserService, RegistrationSuccessComponent>>

vars == <<pc, modules, bootstrapCalls, calls, imports, document>>

\* Number of distinct opaque values an import or the document may be.
NumValues == 2

Values == 1..NumValues

Range(s) == {s[i] : i \in DOMAIN s}

-----------------------------------------------------------------------------
(* The framework calls main.ts makes, by what they do to the registry.     *)

\* angular.module(name, requires): creates (or replaces) the module.
Module(reg, name, requires) ==
    [n \in DOMAIN reg \cup {name} |->
        IF n = name
        THEN [requires |-> requires, configBlocks |-> <<>>, invokeQueue |-> <<>>]
        ELSE reg[n]]

\* module.config(fn): appends fn to the module's config blocks.
Config(reg, name, fn) ==
    [reg EXCEPT ![name].configBlocks = Append(@, fn)]

\* A mutant of Register: the queue is replaced instead of appended to.
RegisterOverwrites(reg, name, kind, key, value) ==
    [reg EXCEPT ![name].invokeQueue =
        <<[kind |-> kind, name |-> key, value |-> value]>>]

\* module.component(key, value) / module.service(key, value): appends the
\* registration to the module's invoke queue.
Register(reg, name, kind, key, value) ==
    [reg EXCEPT ![name].invokeQueue =
        Append(@, [kind |-> kind, name |-> key, value |-> value])]

-----------------------------------------------------------------------------
(* The literals of main.ts.                                                *)

\* A mutant of AppRequires: the routing library is not declared.
AppRequiresNone == <<>>

\* A mutant of AppRequires: the animation module is declared on 'app' too.
AppRequiresAnimate == <<"ui.router", "ngAnimate">>

\* The dependency list of module 'app', lines 10-12.
AppRequires == <<"ui.router">>

\* A mutant of BootstrapModules: the accessibility module is left out.
BootstrapModulesNoAria == <<"app", "ngAnimate">>

\* The module list passed to bootstrap, line 20.
BootstrapModules == <<"app", "ngAnimate", "ngAria">>

\* A mutant of Statements: bootstrap runs before the last registration.
StatementsBootstrapEarly ==
    <<"module", "config", "applicationComponent", "dashboardComponent",
      "userService", "registrationComponent", "bootstrap",
      "registrationSuccessComponent">>

\* A mutant of Statements: bootstrap is called twice.
StatementsBootstrapTwice ==
    <<"module", "config", "applicationComponent", "dashboardComponent",
      "userService", "registrationComponent", "registrationSuccessComponent",
      "bootstrap", "bootstrap">>

\* A mutant of Statements: the service is registered before the dashboard.
StatementsSwapped ==
    <<"module", "config", "applicationComponent", "userService",
      "dashboardComponent", "registrationComponent",
      "registrationSuccessComponent", "bootstrap">>

\* A mutant of Statements: the config call is missing.
StatementsNoConfig ==
    <<"module", "applicationComponent", "dashboardComponent", "userService",
      "registrationComponent", "registrationSuccessComponent", "bootstrap">>

\* The statements of main.ts in program order, lines 10-20.
Statements ==
    <<"module", "config", "applicationComponent", "dashboardComponent",
      "userService", "registrationComponent", "registrationSuccessComponent",
      "bootstrap">>

At(label) == pc \in DOMAIN Statements /\ Statements[pc] = label

Advance(label) ==
    /\ pc' = pc + 1
    /\ calls' = Append(calls, label)

-----------------------------------------------------------------------------
Init ==
    /\ pc = 1
    /\ modules = [n \in {} |-> {}]
    /\ bootstrapCalls = <<>>
    /\ calls = <<>>
    /\ routes \in Values
    /\ ApplicationComponent \in Values
    /\ DashboardComponent \in Values
    /\ RegistrationComponent \in Values
    /\ UserService \in Values
    /\ RegistrationSuccessComponent \in Values
    /\ document \in Values

\* module('app', ['ui.router'])
ModuleApp ==
    /\ At("module")
    /\ modules' = Module(modules, "app", AppRequires)
    /\ Advance("module")
    /\ UNCHANGED <<bootstrapCalls, imports, document>>

\* .config(routes)
ConfigRoutes ==
    /\ At("config")
    /\ modules' = Config(modules, "app", routes)
    /\ Advance("config")
    /\ UNCHANGED <<bootstrapCalls, imports, document>>

\* .component('applicationComponent', ApplicationComponent)
RegisterApplicationComponent ==
    /\ At("applicationComponent")
    /\ modules' = Register(modules, "app", "component",
                           "applicationComponent", ApplicationComponent)
    /\ Advance("applicationComponent")
    /\ UNCHANGED <<bootstrapCalls, imports, document>>

\* A mutant of RegisterDashboardComponent: the name is bound to the wrong import.
RegisterDashboardWrongImport ==
    /\ At("dashboardComponent")
    /\ modules' = Register(modules, "app", "component",
                           "dashboardComponent", ApplicationComponent)
    /\ Advance("dashboardComponent")
    /\ UNCHANGED <<bootstrapCalls, imports, document>>

\* .component('dashboardComponent', DashboardComponent)
RegisterDashboardComponent ==
    /\ At("dashboardComponent")
    /\ modules' = Register(modules, "app", "component",
                           "dashboardComponent", DashboardComponent)
    /\ Advance("dashboardComponent")
    /\ UNCHANGED <<bootstrapCalls, imports, document>>

\* .service('userService', UserService)
RegisterUserService ==
    /\ At("userService")
    /\ modules' = Register(modules, "app", "service",
                           "userService", UserService)
    /\ Advance("userService")
    /\ UNCHANGED <<bootstrapCalls, imports, document>>

\* .component('registrationComponent', RegistrationComponent)
RegisterRegistrationComponent ==
    /\ At("registrationComponent")
    /\ modules' = Register(modules, "app", "component",
                           "registrationComponent", RegistrationComponent)
    /\ Advance("registrationComponent")
    /\ UNCHANGED <<bootstrapCalls, imports, document>>

\* .component('registrationSuccessComponent', RegistrationSuccessComponent)
RegisterRegistrationSuccessComponent ==
    /\ At("registrationSuccessComponent")
    /\ modules' = Register(modules, "app", "component",
                           "registrationSuccessComponent",
                           RegistrationSuccessComponent)
    /\ Advance("registrationSuccessComponent")
    /\ UNCHANGED <<bootstrapCalls, imports, document>>

\* bootstrap(document, ['app', 'ngAnimate', 'ngAria'])
Bootstrap ==
    /\ At("bootstrap")
    /\ bootstrapCalls' = Append(bootstrapCalls,
                                [element |-> document, modules |-> BootstrapModules])
    /\ Advance("bootstrap")
    /\ UNCHANGED <<modules, imports, document>>

Next ==
    \/ ModuleApp
    \/ ConfigRoutes
    \/ RegisterApplicationComponent
    \/ RegisterDashboardComponent
    \/ RegisterUserService
    \/ RegisterRegistrationComponent
    \/ RegisterRegistrationSuccessComponent
    \/ Bootstrap

Spec == Init /\ [][Next]_vars

\* main.ts is a synchronous script: once started it runs to its last statement.
FairSpec == Spec /\ WF_vars(Next)

-----------------------------------------------------------------------------
(* Derived state.                                                          *)

AppDefined == "app" \in DOMAIN modules

Requires == IF AppDefined THEN modules["app"].requires ELSE <<>>

ConfigBlocks == IF AppDefined THEN modules["app"].configBlocks ELSE <<>>

InvokeQueue == IF AppDefined THEN modules["app"].invokeQueue ELSE <<>>

RegisteredNames == {InvokeQueue[i].name : i \in DOMAIN InvokeQueue}

Mounted == bootstrapCalls # <<>>

\* Positions of a call in the log of framework calls.
Positions(label) == {i \in DOMAIN calls : calls[i] = label}

IsComponent(e) == e.kind = "component"

IsService(e) == e.kind = "service"

-----------------------------------------------------------------------------
(* What the documentation of main.ts states, written out literally.        *)

FiveNames ==
    {"applicationComponent", "dashboardComponent", "userService",
     "registrationComponent", "registrationSuccessComponent"}

MainSequence ==
    <<"module", "config", "applicationComponent", "dashboardComponent",
      "userService", "registrationComponent", "registrationSuccessComponent",
      "bootstrap">>

\* The binding each name is documented to have.
ExpectedBinding(name) ==
    CASE name = "applicationComponent" ->
            [kind |-> "component", name |-> name, value |-> ApplicationComponent]
      [] name = "dashboardComponent" ->
            [kind |-> "component", name |-> name, value |-> DashboardComponent]
      [] name = "registrationComponent" ->
            [kind |-> "component", name |-> name, value |-> RegistrationComponent]
      [] name = "registrationSuccessComponent" ->
            [kind |-> "component", name |-> name,
             value |-> RegistrationSuccessComponent]
      [] name = "userService" ->
            [kind |-> "service", name |-> name, value |-> UserService]

-----------------------------------------------------------------------------
\* C1: whenever bootstrap has run, all five names (applicationComponent,
\* dashboardComponent, userService, registrationComponent,
\* registrationSuccessComponent) are registered on module 'app'.
C1_RegisteredBeforeBootstrap ==
    (Mounted \/ Positions("bootstrap") # {}) =>
        /\ AppDefined
        /\ FiveNames \subseteq RegisteredNames

C1_Witness ==
    /\ Mounted
    /\ FiveNames \subseteq RegisteredNames

\* C2: every bootstrap call mounts onto the global document with exactly
\* the module list <<'app', 'ngAnimate', 'ngAria'>>.
C2_BootstrapArguments ==
    \A i \in DOMAIN bootstrapCalls :
        /\ bootstrapCalls[i].element = document
        /\ bootstrapCalls[i].modules = <<"app", "ngAnimate", "ngAria">>
        /\ Len(bootstrapCalls[i].modules) = 3

C2_Witness ==
    /\ Len(bootstrapCalls) = 1
    /\ bootstrapCalls[1].element = document
    /\ bootstrapCalls[1].modules = <<"app", "ngAnimate", "ngAria">>

\* C3: from its creation on (after the first statement), module 'app' exists
\* and its declared dependency list contains 'ui.router'.
C3_RequiresRouter ==
    /\ AppDefined => "ui.router" \in Range(Requires)
    /\ calls # <<>> => AppDefined

C3_Witness ==
    /\ AppDefined
    /\ Len(InvokeQueue) = 5
    /\ "ui.router" \in Range(Requires)

\* C4: routes is added as a config block of 'app' exactly once, after the
\* module is created and before bootstrap; at mount time the config blocks
\* of 'app' are exactly <<routes>>.
C4_ConfigApplied ==
    /\ Cardinality(Positions("config")) <= 1
    /\ Len(ConfigBlocks) = Cardinality(Positions("config"))
    /\ \A i \in DOMAIN ConfigBlocks : ConfigBlocks[i] = routes
    /\ \A c \in Positions("config") :
          /\ \E m \in Positions("module") : m < c
          /\ \A m \in Positions("module") : m < c
          /\ \A b \in Positions("bootstrap") : c < b
    /\ Mounted => ConfigBlocks = <<routes>>

C4_Witness ==
    /\ Mounted
    /\ ConfigBlocks = <<routes>>
    /\ Positions("config") = {2}

\* C5 as stated: at the end the registered items are five UI pieces
\* (components) plus one service.
C5_FiveComponentsAndService ==
    pc > Len(MainSequence) =>
        /\ Len(SelectSeq(InvokeQueue, IsComponent)) = 5
        /\ Len(SelectSeq(InvokeQueue, IsService)) = 1

\* C5 (amended): at the end the registered items are exactly the four
\* imported UI pieces, as components, plus the one imported service.
C5_FourComponentsAndService ==
    pc > Len(MainSequence) =>
        LET comps == SelectSeq(InvokeQueue, IsComponent)
            svcs  == SelectSeq(InvokeQueue, IsService)
        IN  /\ Len(InvokeQueue) = 5
            /\ Len(comps) = 4
            /\ Len(svcs) = 1
            /\ {comps[i].value : i \in DOMAIN comps} =
                  {ApplicationComponent, DashboardComponent,
                   RegistrationComponent, RegistrationSuccessComponent}
            /\ svcs[1].value = UserService
            /\ Mounted

C5_Witness ==
    /\ pc > Len(MainSequence)
    /\ Len(SelectSeq(InvokeQueue, IsComponent)) = 4
    /\ Len(SelectSeq(InvokeQueue, IsService)) = 1
    /\ Cardinality({ApplicationComponent, DashboardComponent,
                    RegistrationComponent, RegistrationSuccessComponent}) > 1

\* C6: bootstrap is called at most once in any prefix and exactly once,
\* against document, by the end; no step is taken from a mounted state, so
\* the application stays mounted and nothing is registered or mounted again.
C6_SingleBootstrap ==
    /\ [](Len(bootstrapCalls) <= 1)
    /\ [](Cardinality(Positions("bootstrap")) = Len(bootstrapCalls))
    /\ [](pc > Len(MainSequence) =>
            /\ Len(bootstrapCalls) = 1
            /\ bootstrapCalls[1].element = document)
    /\ [][~Mounted /\ (Mounted' => InvokeQueue' = InvokeQueue)]_vars

C6_Witness ==
    /\ Mounted
    /\ Len(bootstrapCalls) = 1
    /\ Len(InvokeQueue) = 5

\* Number of statements of main.ts able to run in the current state.
EnabledSteps ==
      (IF ENABLED ModuleApp THEN 1 ELSE 0)
    + (IF ENABLED ConfigRoutes THEN 1 ELSE 0)
    + (IF ENABLED RegisterApplicationComponent THEN 1 ELSE 0)
    + (IF ENABLED RegisterDashboardComponent THEN 1 ELSE 0)
    + (IF ENABLED RegisterUserService THEN 1 ELSE 0)
    + (IF ENABLED RegisterRegistrationComponent THEN 1 ELSE 0)
    + (IF ENABLED RegisterRegistrationSuccessComponent THEN 1 ELSE 0)
    + (IF ENABLED Bootstrap THEN 1 ELSE 0)

\* C7: exactly one step is enabled in every non-final state and none in the
\* final one; the calls are made in the one fixed order module, config,
\* applicationComponent, dashboardComponent, userService,
\* registrationComponent, registrationSuccessComponent, bootstrap; and the
\* run always ends mounted.
C7_SingleSequence ==
    /\ [](EnabledSteps = IF Mounted THEN 0 ELSE 1)
    /\ [](/\ Len(calls) <= Len(MainSequence)
          /\ calls = SubSeq(MainSequence, 1, Len(calls)))
    /\ [][/\ Len(calls) < Len(MainSequence)
          /\ calls' = Append(calls, MainSequence[Len(calls) + 1])]_vars
    /\ <>[](Mounted /\ calls = MainSequence)

C7_Witness ==
    /\ Mounted
    /\ calls = MainSequence
    /\ EnabledSteps = 0

\* C8: every registration on 'app' binds its name to the matching import
\* with the right kind, the registered names are pairwise distinct, all five
\* are bound at the end, and each step leaves the earlier registrations
\* unchanged.
C8_Bindings ==
    /\ [](\A i \in DOMAIN InvokeQueue :
            /\ InvokeQueue[i].name \in FiveNames
            /\ InvokeQueue[i] = ExpectedBinding(InvokeQueue[i].name)
            /\ \A j \in DOMAIN InvokeQueue :
                  InvokeQueue[i].name = InvokeQueue[j].name => i = j)
    /\ [](Mounted => RegisteredNames = FiveNames)
    /\ [][\A i \in DOMAIN InvokeQueue :
            /\ i \in DOMAIN InvokeQueue'
            /\ InvokeQueue'[i] = InvokeQueue[i]]_vars

C8_Witness ==
    /\ RegisteredNames = FiveNames
    /\ ApplicationComponent # DashboardComponent
    /\ UserService # RegistrationComponent
    /\ \A i \in DOMAIN InvokeQueue :
          InvokeQueue[i] = ExpectedBinding(InvokeQueue[i].name)

\* C9: the dependency list of 'app' is exactly <<'ui.router'>>, so ngAnimate
\* and ngAria are never among it; they are enabled only by the bootstrap
\* list, which does not name 'ui.router': at mount time 'ui.router' is
\* reached only through 'app'.
C9_DependencyLists ==
    /\ AppDefined =>
          /\ Requires = <<"ui.router">>
          /\ "ngAnimate" \notin Range(Requires)
          /\ "ngAria" \notin Range(Requires)
    /\ \A i \in DOMAIN bootstrapCalls :
          LET list == Range(bootstrapCalls[i].modules)
          IN  /\ "ui.router" \notin list
              /\ {"app", "ngAnimate", "ngAria"} \subseteq list
              /\ AppDefined
              /\ {m \in list \cap DOMAIN modules :
                     "ui.router" \in Range(modules[m].requires)} = {"app"}

C9_Witness ==
    /\ Mounted
    /\ Requires = <<"ui.router">>
    /\ "ui.router" \notin Range(bootstrapCalls[1].modules)
    /\ "ngAnimate" \in Range(bootstrapCalls[1].modules)

=============================================================================
